---- MODULE Spec2Model ----
(***************************************************************************)
(* The named connection pool of spcdb (src/db.go, lines 355-493): the      *)
(* process-wide registry `pools`, the reverse index `poolPtr` guarded by   *)
(* `mPtr`, the pool entries (poolType) with their own RWMutex, the entry   *)
(* points NewPoolConnection, GetFromPool, ReturnToPool and ConnectionName  *)
(* called by concurrent goroutines, and the background goroutine started   *)
(* by init() that pings idle connections.                                  *)
(*                                                                         *)
(* Every goroutine is a little program counter machine.  A step is one     *)
(* access to shared memory that other goroutines can see, together with    *)
(* the local computation around it: a lock is taken in the step of the     *)
(* first access it guards and given back in the step of the last one, so   *)
(* a critical section that calls nothing is one step, and one that calls   *)
(* the driver or takes a second lock is cut at each such call.  Slices are *)
(* indexed from 1 here and from 0 in the source.                           *)
(***************************************************************************)
EXTENDS Integers, Sequences, FiniteSets, TLC

\* ------------------------------------------------------------------ bounds
\* The value the process gives MaxConnsInPool (20 unless set), and the calls
\* the callers make in all.
MaxCap == 2
MaxCalls == 4
\* The pools registered in all.
MaxPools == 2

\* The goroutines that call the package, and the background goroutine.
Callers == {"c1", "c2"}
Sweeper == "sweeper"
NoThread == "none"

\* Connection names the callers use.
Names == {"a", "b"}

\* ------------------------------------------------------------- the values
Nil == 0
\* The *DB values Open can give: at most one for each call.
Handles == 1..MaxCalls
\* A *DB that no pool ever produced (made by Open directly, say).
Foreign == MaxCalls + 1

DefaultDriverName == "postgres"

\* The DBConfiguer values callers register pools with.
Configs ==
    { [driver |-> "",      dsn |-> "dsn1", ping |-> TRUE],
      [driver |-> "mysql", dsn |-> "dsn2", ping |-> FALSE] }

NoErr == "nil"
ErrUnknownPool == "spcdb: No DB connection by name"
ErrPoolExhausted == "spcdb: No idle DB connections"
ErrOpen == "driver: open failed"
ErrPing == "driver: bad connection"

\* ptrType, and the zero value a failed lookup yields.
NoPtr == [index |-> 0, nameConn |-> ""]

\* sync.RWMutex: the goroutine holding it exclusively, those holding it shared.
FreeMutex == [w |-> NoThread, r |-> {}]
CanLock(mu) == mu.w = NoThread /\ mu.r = {}
CanRLock(mu) == mu.w = NoThread

VARIABLES
    MaxConnsInPool, \* the package tunable, set before any pool is registered
    pools,          \* the registry: connection name -> pool entry (its id)
    poolObj,        \* the poolType objects ever allocated (conns, busy, driver, dsn, ping)
    poolM,          \* poolType.m of each object
    poolPtr,        \* the reverse index: handle -> ptrType
    mPtr,           \* the RWMutex guarding poolPtr
    pc,             \* where each caller is
    loc,            \* each caller's arguments, locals and result
    sw,             \* the background goroutine: position and locals
    crashed,        \* the runtime threw on a concurrent map access
    held,           \* history: how many times each caller holds each handle
    misuse,         \* history: a caller released a handle it did not hold
    calls           \* history: the calls made so far

vars == <<MaxConnsInPool, pools, poolObj, poolM, poolPtr, mPtr, pc, loc, sw,
          crashed, held, misuse, calls>>

Slots == 1..MaxConnsInPool

\* A caller's locals between calls.
NoLoc ==
    [op |-> "", name |-> "", arg |-> Nil, pool |-> 0, index |-> 0,
     ptr |-> NoPtr, db |-> Nil, err |-> NoErr, ok |-> FALSE, cname |-> ""]

\* The background goroutine between sweeps.
SwIdle ==
    [pc |-> "sleep", visited |-> {}, pool |-> 0, freePools |-> <<>>,
     index |-> 0, db |-> Nil, pinged |-> <<>>, moved |-> {}]

\* ------------------------------------------------------------------- Init
\* init(), db.go 393-407: both maps empty, the background goroutine started.
Init ==
    /\ MaxConnsInPool = MaxCap
    /\ pools = << >>
    /\ poolObj = << >>
    /\ poolM = << >>
    /\ poolPtr = << >>
    /\ mPtr = FreeMutex
    /\ pc = [t \in Callers |-> "idle"]
    /\ loc = [t \in Callers |-> NoLoc]
    /\ sw = SwIdle
    /\ crashed = FALSE
    /\ held = [t \in Callers |-> [h \in Handles |-> 0]]
    /\ misuse = FALSE
    /\ calls = 0

\* ------------------------------------------------------- the registry map
\* A goroutine whose next step writes the map `pools` (db.go 441).
MapWriter(t) == t \in Callers /\ pc[t] = "reg_write"

\* A goroutine whose next step reads the map `pools`: the lookups of db.go
\* 451 and 485, and the range of db.go 400.
MapReader(t) ==
    \/ t \in Callers /\ pc[t] \in {"get_lookup", "ret_lookup"}
    \/ t = Sweeper /\ sw.pc = "range"

\* No lock orders the accesses to `pools`: two goroutines both about to
\* access it, one of them writing, access it concurrently.
RegistryRace ==
    \E t1 \in Callers : \E t2 \in Callers \cup {Sweeper} :
        /\ t1 # t2
        /\ MapWriter(t1)
        /\ MapWriter(t2) \/ MapReader(t2)

\* ------------------------------------------------------------- the driver
\* Open, db.go 29-36: sql.Open gives a new *DB or an error.  A new *DB is
\* an identity no earlier Open gave: the handles stored by db.go 466 so far
\* are 1..n, and the next one is n+1.
Opened ==
    {poolObj[id].conns[i] : id \in DOMAIN poolObj, i \in Slots} \ {Nil}

NewHandle == Cardinality(Opened) + 1

OpenResults ==
    (IF NewHandle \in Handles THEN {[db |-> NewHandle, err |-> NoErr]} ELSE {})
        \cup {[db |-> Nil, err |-> ErrOpen]}

\* The handles some GetFromPool has returned to a caller: those of the
\* reverse index (db.go 468-472 enter a handle and return it in one step).
Issued == DOMAIN poolPtr

\* What a caller can pass as a *DB: a handle a pool gave out, or a foreign one.
KnownDBs == Issued \cup {Foreign}

\* ------------------------------------------------------------ the callers
Running == ~crashed

\* What a caller is left with when its call returns.
GetResult(t, db, err) == [NoLoc EXCEPT !.op = loc[t].op, !.name = loc[t].name,
                                       !.db = db, !.err = err]
RetResult(t, ok) == [NoLoc EXCEPT !.op = loc[t].op, !.arg = loc[t].arg, !.ok = ok]

\* The caller holds the handle GetFromPool gives it.
Hold(t, db) == [held EXCEPT ![t][db] = IF @ < 2 THEN @ + 1 ELSE @]

\* History for the sweep in progress: slot i of pool id changed after the
\* snapshot of db.go 411-413.
Moved(id, i) ==
    IF sw.pc \in {"pp_loop", "pp_ping"} /\ sw.pool = id
    THEN [sw EXCEPT !.moved = @ \cup {i}]
    ELSE sw

\* A registration that keeps the driver name as given, empty or not.
DriverOfNoDefault(cfg) == cfg.driver

\* The driver name NewPoolConnection keeps, db.go 437-440.
DriverOf(cfg) == IF cfg.driver = "" THEN DefaultDriverName ELSE cfg.driver

\* The poolType of db.go 441-447.
NewPoolType(cfg) ==
    [conns  |-> [i \in Slots |-> Nil],
     busy   |-> [i \in Slots |-> FALSE],
     driver |-> DriverOf(cfg),
     dsn    |-> cfg.dsn,
     ping   |-> cfg.ping]

\* A caller starts NewPoolConnection(name, cfg), db.go 436-440 and the
\* composite literal of 441-447; the map write comes next.
CallNewPoolConnection(t, name, cfg) ==
    /\ Running /\ pc[t] = "idle"
    /\ calls < MaxCalls
    /\ calls' = calls + 1
    /\ Len(poolObj) < MaxPools
    /\ poolObj' = Append(poolObj, NewPoolType(cfg))
    /\ poolM' = Append(poolM, FreeMutex)
    /\ pc' = [pc EXCEPT ![t] = "reg_write"]
    /\ loc' = [loc EXCEPT ![t] = [NoLoc EXCEPT !.op = "NewPoolConnection",
                                               !.name = name,
                                               !.pool = Len(poolObj) + 1]]
    /\ UNCHANGED <<MaxConnsInPool, pools, poolPtr, mPtr, sw, crashed, held, misuse>>

\* The registry with name bound to the pool object id.
MapStore(name, id) ==
    [n \in DOMAIN pools \cup {name} |-> IF n = name THEN id ELSE pools[n]]

\* pools[connectionName] = &poolType{...}, db.go 441.  A key inserted while
\* the background goroutine ranges over the map is produced by that range
\* or skipped by it.
RegWrite(t) ==
    /\ Running /\ pc[t] = "reg_write"
    /\ pools' = MapStore(loc[t].name, loc[t].pool)
    /\ \E skipped \in BOOLEAN :
          sw' = IF /\ skipped
                   /\ sw.pc # "sleep"
                   /\ loc[t].name \notin DOMAIN pools
                THEN [sw EXCEPT !.visited = @ \cup {loc[t].name}]
                ELSE sw
    /\ pc' = [pc EXCEPT ![t] = "idle"]
    /\ loc' = [loc EXCEPT ![t] = NoLoc]
    /\ UNCHANGED <<MaxConnsInPool, calls, poolObj, poolM, poolPtr, mPtr, crashed,
                   held, misuse>>

\* A caller starts GetFromPool(connectionName).
CallGetFromPool(t, name) ==
    /\ Running /\ pc[t] = "idle"
    /\ calls < MaxCalls
    /\ calls' = calls + 1
    /\ pc' = [pc EXCEPT ![t] = "get_lookup"]
    /\ loc' = [loc EXCEPT ![t] = [NoLoc EXCEPT !.op = "GetFromPool", !.name = name]]
    /\ UNCHANGED <<MaxConnsInPool, pools, poolObj, poolM, poolPtr, mPtr, sw,
                   crashed, held, misuse>>

\* A lookup that reports a missing name as an exhausted pool.
GetLookupWrongError(t) ==
    /\ Running /\ pc[t] = "get_lookup"
    /\ IF loc[t].name \in DOMAIN pools
       THEN /\ pc' = [pc EXCEPT ![t] = "get_lock"]
            /\ loc' = [loc EXCEPT ![t].pool = pools[loc[t].name]]
       ELSE /\ pc' = [pc EXCEPT ![t] = "idle"]
            /\ loc' = [loc EXCEPT ![t] = GetResult(t, Nil, ErrPoolExhausted)]
    /\ UNCHANGED <<MaxConnsInPool, calls, pools, poolObj, poolM, poolPtr, mPtr, sw,
                   crashed, held, misuse>>

\* pool, found := pools[connectionName], db.go 451-454.
GetLookup(t) ==
    /\ Running /\ pc[t] = "get_lookup"
    /\ IF loc[t].name \in DOMAIN pools
       THEN /\ pc' = [pc EXCEPT ![t] = "get_lock"]
            /\ loc' = [loc EXCEPT ![t].pool = pools[loc[t].name]]
       ELSE /\ pc' = [pc EXCEPT ![t] = "idle"]
            /\ loc' = [loc EXCEPT ![t] = GetResult(t, Nil, ErrUnknownPool)]
    /\ UNCHANGED <<MaxConnsInPool, calls, pools, poolObj, poolM, poolPtr, mPtr, sw,
                   crashed, held, misuse>>

\* A scan that takes the last slot for idle whatever its flag says.
IdleSlotsOrLast(p) == {i \in DOMAIN p.busy : ~p.busy[i] \/ i = MaxConnsInPool}

\* The slots of a pool that are not busy.
IdleSlots(p) == {i \in DOMAIN p.busy : ~p.busy[i]}

\* A scan that stops at the last slot not busy.
FirstIdleFromEnd(p) == CHOOSE i \in IdleSlots(p) : \A j \in IdleSlots(p) : i >= j

\* A scan that stops at the first idle slot that is empty, if there is one.
FirstIdleEmptyFirst(p) ==
    LET empty == {i \in IdleSlots(p) : p.conns[i] = Nil}
        from == IF empty # {} THEN empty ELSE IdleSlots(p)
    IN  CHOOSE i \in from : \A j \in from : i <= j

\* The slot the loop of db.go 458-459 stops at: the first one not busy.
FirstIdle(p) == CHOOSE i \in IdleSlots(p) : \A j \in IdleSlots(p) : i <= j

\* A test that finds every slot empty.
HasConnNever(p, i) == FALSE

\* if db := pool.conns[index]; db != nil, db.go 460.
HasConn(p, i) == p.conns[i] # Nil

\* A scan that waits, the lock not taken, until some slot is idle.
GetScanWaits(t) ==
    /\ Running /\ pc[t] = "get_lock"
    /\ CanLock(poolM[loc[t].pool])
    /\ IdleSlots(poolObj[loc[t].pool]) # {}
    /\ LET id == loc[t].pool
           p == poolObj[id]
           i == FirstIdle(p)
       IN  IF HasConn(p, i)
           THEN /\ poolObj' = [poolObj EXCEPT ![id].busy[i] = TRUE]
                /\ loc' = [loc EXCEPT ![t] = GetResult(t, p.conns[i], NoErr)]
                /\ pc' = [pc EXCEPT ![t] = "idle"]
                /\ held' = Hold(t, p.conns[i])
                /\ sw' = Moved(id, i)
                /\ UNCHANGED poolM
           ELSE /\ poolM' = [poolM EXCEPT ![id].w = t]
                /\ loc' = [loc EXCEPT ![t].index = i]
                /\ pc' = [pc EXCEPT ![t] = "get_open"]
                /\ UNCHANGED <<poolObj, held, sw>>
    /\ UNCHANGED <<MaxConnsInPool, calls, pools, poolPtr, mPtr, crashed, misuse>>

\* A scan under one lock shared by all the pools.
GetScanOneLock(t) ==
    /\ Running /\ pc[t] = "get_lock"
    /\ \A other \in DOMAIN poolM : CanLock(poolM[other])
    /\ LET id == loc[t].pool
           p == poolObj[id]
       IN  IF IdleSlots(p) = {}
           THEN /\ loc' = [loc EXCEPT ![t] = GetResult(t, Nil, ErrPoolExhausted)]
                /\ pc' = [pc EXCEPT ![t] = "idle"]
                /\ UNCHANGED <<poolObj, poolM, held, sw>>
           ELSE LET i == FirstIdle(p)
                IN  IF HasConn(p, i)
                    THEN /\ poolObj' = [poolObj EXCEPT ![id].busy[i] = TRUE]
                         /\ loc' = [loc EXCEPT ![t] = GetResult(t, p.conns[i], NoErr)]
                         /\ pc' = [pc EXCEPT ![t] = "idle"]
                         /\ held' = Hold(t, p.conns[i])
                         /\ sw' = Moved(id, i)
                         /\ UNCHANGED poolM
                    ELSE /\ poolM' = [poolM EXCEPT ![id].w = t]
                         /\ loc' = [loc EXCEPT ![t].index = i]
                         /\ pc' = [pc EXCEPT ![t] = "get_open"]
                         /\ UNCHANGED <<poolObj, held, sw>>
    /\ UNCHANGED <<MaxConnsInPool, calls, pools, poolPtr, mPtr, crashed, misuse>>

\* pool.m.Lock() and the loop of db.go 456-463 and 475.  With every slot busy
\* the call returns the exhaustion error; a first idle slot that holds a
\* connection is marked busy and its connection returned (the deferred
\* Unlock of 457 runs in both cases); a first idle slot that holds none is
\* opened next, the lock kept.
GetScan(t) ==
    /\ Running /\ pc[t] = "get_lock"
    /\ CanLock(poolM[loc[t].pool])
    /\ LET id == loc[t].pool
           p == poolObj[id]
       IN  IF IdleSlots(p) = {}
           THEN /\ loc' = [loc EXCEPT ![t] = GetResult(t, Nil, ErrPoolExhausted)]
                /\ pc' = [pc EXCEPT ![t] = "idle"]
                /\ UNCHANGED <<poolObj, poolM, held, sw>>
           ELSE LET i == FirstIdle(p)
                IN  IF HasConn(p, i)
                    THEN /\ poolObj' = [poolObj EXCEPT ![id].busy[i] = TRUE]
                         /\ loc' = [loc EXCEPT ![t] = GetResult(t, p.conns[i], NoErr)]
                         /\ pc' = [pc EXCEPT ![t] = "idle"]
                         /\ held' = Hold(t, p.conns[i])
                         /\ sw' = Moved(id, i)
                         /\ UNCHANGED poolM
                    ELSE /\ poolM' = [poolM EXCEPT ![id].w = t]
                         /\ loc' = [loc EXCEPT ![t].index = i]
                         /\ pc' = [pc EXCEPT ![t] = "get_open"]
                         /\ UNCHANGED <<poolObj, held, sw>>
    /\ UNCHANGED <<MaxConnsInPool, calls, pools, poolPtr, mPtr, crashed, misuse>>

\* An open whose failure leaves the slot marked busy.
GetOpenPoisons(t) ==
    /\ Running /\ pc[t] = "get_open"
    /\ \E r \in OpenResults :
          IF r.err = NoErr
          THEN /\ poolObj' = [poolObj EXCEPT
                                 ![loc[t].pool].conns[loc[t].index] = r.db]
               /\ loc' = [loc EXCEPT ![t].db = r.db, ![t].err = r.err]
               /\ pc' = [pc EXCEPT ![t] = "get_ptrlock"]
               /\ sw' = Moved(loc[t].pool, loc[t].index)
               /\ UNCHANGED poolM
          ELSE /\ poolObj' = [poolObj EXCEPT
                                 ![loc[t].pool].busy[loc[t].index] = TRUE]
               /\ poolM' = [poolM EXCEPT ![loc[t].pool].w = NoThread]
               /\ loc' = [loc EXCEPT ![t] = GetResult(t, r.db, r.err)]
               /\ pc' = [pc EXCEPT ![t] = "idle"]
               /\ UNCHANGED sw
    /\ UNCHANGED <<MaxConnsInPool, calls, pools, poolPtr, mPtr, crashed, held, misuse>>

\* db, err := Open(pool.driver, pool.dsn), db.go 464-466 and 472: a new
\* connection is stored in the slot; an error is returned with the slot left
\* as it was (and the deferred Unlock runs).
GetOpen(t) ==
    /\ Running /\ pc[t] = "get_open"
    /\ \E r \in OpenResults :
          IF r.err = NoErr
          THEN /\ poolObj' = [poolObj EXCEPT
                                 ![loc[t].pool].conns[loc[t].index] = r.db]
               /\ loc' = [loc EXCEPT ![t].db = r.db, ![t].err = r.err]
               /\ pc' = [pc EXCEPT ![t] = "get_ptrlock"]
               /\ sw' = Moved(loc[t].pool, loc[t].index)
               /\ UNCHANGED poolM
          ELSE /\ poolM' = [poolM EXCEPT ![loc[t].pool].w = NoThread]
               /\ loc' = [loc EXCEPT ![t] = GetResult(t, r.db, r.err)]
               /\ pc' = [pc EXCEPT ![t] = "idle"]
               /\ UNCHANGED <<poolObj, sw>>
    /\ UNCHANGED <<MaxConnsInPool, calls, pools, poolPtr, mPtr, crashed, held, misuse>>

\* The reverse index with db bound to ptr.
PtrStore(db, ptr) ==
    [h \in DOMAIN poolPtr \cup {db} |-> IF h = db THEN ptr ELSE poolPtr[h]]

\* A return of a new connection that does not mark its slot busy.
GetPtrNotBusy(t) ==
    /\ Running /\ pc[t] = "get_ptrlock"
    /\ CanLock(mPtr)
    /\ poolPtr' = PtrStore(loc[t].db,
                           [index |-> loc[t].index, nameConn |-> loc[t].name])
    /\ poolM' = [poolM EXCEPT ![loc[t].pool].w = NoThread]
    /\ loc' = [loc EXCEPT ![t] = GetResult(t, loc[t].db, loc[t].err)]
    /\ pc' = [pc EXCEPT ![t] = "idle"]
    /\ held' = Hold(t, loc[t].db)
    /\ UNCHANGED <<MaxConnsInPool, calls, pools, poolObj, mPtr, sw, crashed, misuse>>

\* mPtr.Lock(); poolPtr[db] = ptrType{index, connectionName}; mPtr.Unlock();
\* pool.busy[index] = true; return db, err and the deferred pool.m.Unlock():
\* db.go 467-472.
GetPtr(t) ==
    /\ Running /\ pc[t] = "get_ptrlock"
    /\ CanLock(mPtr)
    /\ poolPtr' = PtrStore(loc[t].db,
                           [index |-> loc[t].index, nameConn |-> loc[t].name])
    /\ poolObj' = [poolObj EXCEPT ![loc[t].pool].busy[loc[t].index] = TRUE]
    /\ poolM' = [poolM EXCEPT ![loc[t].pool].w = NoThread]
    /\ loc' = [loc EXCEPT ![t] = GetResult(t, loc[t].db, loc[t].err)]
    /\ pc' = [pc EXCEPT ![t] = "idle"]
    /\ held' = Hold(t, loc[t].db)
    /\ sw' = Moved(loc[t].pool, loc[t].index)
    /\ UNCHANGED <<MaxConnsInPool, calls, pools, mPtr, crashed, misuse>>

\* A caller starts ReturnToPool(db) (or db.ReturnToPool(), db.go 432-434),
\* giving the handle up; mPtr.RLock(), db.go 479.
CallReturnToPool(t, db) ==
    /\ Running /\ pc[t] = "idle"
    /\ calls < MaxCalls
    /\ calls' = calls + 1
    /\ CanRLock(mPtr)
    /\ mPtr' = [mPtr EXCEPT !.r = @ \cup {t}]
    /\ pc' = [pc EXCEPT ![t] = "ret_read"]
    /\ loc' = [loc EXCEPT ![t] = [NoLoc EXCEPT !.op = "ReturnToPool", !.arg = db]]
    /\ IF db \in Handles /\ held[t][db] > 0
       THEN /\ held' = [held EXCEPT ![t][db] = @ - 1]
            /\ UNCHANGED misuse
       ELSE /\ misuse' = (misuse \/ db \in Handles)
            /\ UNCHANGED held
    /\ UNCHANGED <<MaxConnsInPool, pools, poolObj, poolM, poolPtr, sw, crashed>>

\* A lookup that answers true for a handle the reverse index does not have.
RetReadAnswersTrue(t) ==
    /\ Running /\ pc[t] = "ret_read"
    /\ mPtr' = [mPtr EXCEPT !.r = @ \ {t}]
    /\ IF loc[t].arg \in DOMAIN poolPtr
       THEN /\ loc' = [loc EXCEPT ![t].ptr = poolPtr[loc[t].arg]]
            /\ pc' = [pc EXCEPT ![t] = "ret_lookup"]
       ELSE /\ loc' = [loc EXCEPT ![t] = RetResult(t, TRUE)]
            /\ pc' = [pc EXCEPT ![t] = "idle"]
    /\ UNCHANGED <<MaxConnsInPool, calls, pools, poolObj, poolM, poolPtr, sw, crashed,
                   held, misuse>>

\* A lookup that keeps mPtr held shared when it goes on to the pool's lock.
RetReadKeepsLock(t) ==
    /\ Running /\ pc[t] = "ret_read"
    /\ IF loc[t].arg \in DOMAIN poolPtr
       THEN /\ loc' = [loc EXCEPT ![t].ptr = poolPtr[loc[t].arg]]
            /\ pc' = [pc EXCEPT ![t] = "ret_lookup"]
            /\ UNCHANGED mPtr
       ELSE /\ loc' = [loc EXCEPT ![t] = RetResult(t, FALSE)]
            /\ pc' = [pc EXCEPT ![t] = "idle"]
            /\ mPtr' = [mPtr EXCEPT !.r = @ \ {t}]
    /\ UNCHANGED <<MaxConnsInPool, calls, pools, poolObj, poolM, poolPtr, sw, crashed,
                   held, misuse>>

\* ptr, found := poolPtr[db]; mPtr.RUnlock(); if !found return false:
\* db.go 480-484.
RetRead(t) ==
    /\ Running /\ pc[t] = "ret_read"
    /\ mPtr' = [mPtr EXCEPT !.r = @ \ {t}]
    /\ IF loc[t].arg \in DOMAIN poolPtr
       THEN /\ loc' = [loc EXCEPT ![t].ptr = poolPtr[loc[t].arg]]
            /\ pc' = [pc EXCEPT ![t] = "ret_lookup"]
       ELSE /\ loc' = [loc EXCEPT ![t] = RetResult(t, FALSE)]
            /\ pc' = [pc EXCEPT ![t] = "idle"]
    /\ UNCHANGED <<MaxConnsInPool, calls, pools, poolObj, poolM, poolPtr, sw, crashed,
                   held, misuse>>

\* pool, found := pools[ptr.nameConn]; if !found return false: db.go 485-488.
RetLookup(t) ==
    /\ Running /\ pc[t] = "ret_lookup"
    /\ IF loc[t].ptr.nameConn \in DOMAIN pools
       THEN /\ loc' = [loc EXCEPT ![t].pool = pools[loc[t].ptr.nameConn]]
            /\ pc' = [pc EXCEPT ![t] = "ret_lock"]
       ELSE /\ loc' = [loc EXCEPT ![t] = RetResult(t, FALSE)]
            /\ pc' = [pc EXCEPT ![t] = "idle"]
    /\ UNCHANGED <<MaxConnsInPool, calls, pools, poolObj, poolM, poolPtr, mPtr, sw,
                   crashed, held, misuse>>

\* A release that flips the busy flag instead of clearing it.
RetClearFlips(t) ==
    /\ Running /\ pc[t] = "ret_lock"
    /\ CanLock(poolM[loc[t].pool])
    /\ poolObj' = [poolObj EXCEPT ![loc[t].pool].busy[loc[t].ptr.index] = ~@]
    /\ sw' = Moved(loc[t].pool, loc[t].ptr.index)
    /\ loc' = [loc EXCEPT ![t] = RetResult(t, TRUE)]
    /\ pc' = [pc EXCEPT ![t] = "idle"]
    /\ UNCHANGED <<MaxConnsInPool, calls, pools, poolM, poolPtr, mPtr, crashed,
                   held, misuse>>

\* A release that also closes the connection and empties its slot.
RetClearCloses(t) ==
    /\ Running /\ pc[t] = "ret_lock"
    /\ CanLock(poolM[loc[t].pool])
    /\ poolObj' = [poolObj EXCEPT ![loc[t].pool].busy[loc[t].ptr.index] = FALSE,
                                  ![loc[t].pool].conns[loc[t].ptr.index] = Nil]
    /\ sw' = Moved(loc[t].pool, loc[t].ptr.index)
    /\ loc' = [loc EXCEPT ![t] = RetResult(t, TRUE)]
    /\ pc' = [pc EXCEPT ![t] = "idle"]
    /\ UNCHANGED <<MaxConnsInPool, calls, pools, poolM, poolPtr, mPtr, crashed,
                   held, misuse>>

\* pool.m.Lock(); pool.busy[ptr.index] = false; pool.m.Unlock(); return true:
\* db.go 489-492.
RetClear(t) ==
    /\ Running /\ pc[t] = "ret_lock"
    /\ CanLock(poolM[loc[t].pool])
    /\ poolObj' = [poolObj EXCEPT ![loc[t].pool].busy[loc[t].ptr.index] = FALSE]
    /\ sw' = IF poolObj[loc[t].pool].busy[loc[t].ptr.index]
             THEN Moved(loc[t].pool, loc[t].ptr.index)
             ELSE sw
    /\ loc' = [loc EXCEPT ![t] = RetResult(t, TRUE)]
    /\ pc' = [pc EXCEPT ![t] = "idle"]
    /\ UNCHANGED <<MaxConnsInPool, calls, pools, poolM, poolPtr, mPtr, crashed,
                   held, misuse>>

\* A caller starts db.ConnectionName(); mPtr.RLock(): db.go 423-424.
CallConnectionName(t, db) ==
    /\ Running /\ pc[t] = "idle"
    /\ calls < MaxCalls
    /\ calls' = calls + 1
    /\ CanRLock(mPtr)
    /\ mPtr' = [mPtr EXCEPT !.r = @ \cup {t}]
    /\ pc' = [pc EXCEPT ![t] = "cn_read"]
    /\ loc' = [loc EXCEPT ![t] = [NoLoc EXCEPT !.op = "ConnectionName", !.arg = db]]
    /\ UNCHANGED <<MaxConnsInPool, pools, poolObj, poolM, poolPtr, sw, crashed,
                   held, misuse>>

\* The lookup, the deferred mPtr.RUnlock() and the return: db.go 425-429.
CnRead(t) ==
    /\ Running /\ pc[t] = "cn_read"
    /\ mPtr' = [mPtr EXCEPT !.r = @ \ {t}]
    /\ loc' = [loc EXCEPT ![t] =
                 [NoLoc EXCEPT !.op = loc[t].op, !.arg = loc[t].arg,
                               !.cname = IF loc[t].arg \in DOMAIN poolPtr
                                         THEN poolPtr[loc[t].arg].nameConn
                                         ELSE ""]]
    /\ pc' = [pc EXCEPT ![t] = "idle"]
    /\ UNCHANGED <<MaxConnsInPool, calls, pools, poolObj, poolM, poolPtr, sw, crashed,
                   held, misuse>>

\* ------------------------------------------------- the background goroutine
\* <-time.After(TimeoutPing * time.Minute), db.go 399: a sweep starts.
SwTimer ==
    /\ Running /\ sw.pc = "sleep"
    /\ sw' = [SwIdle EXCEPT !.pc = "range"]
    /\ UNCHANGED <<MaxConnsInPool, calls, pools, poolObj, poolM, poolPtr, mPtr, pc, loc,
                   crashed, held, misuse>>

\* A range that calls pingPool for every entry, whatever its ping flag.
SwRangeAll ==
    /\ Running /\ sw.pc = "range"
    /\ IF DOMAIN pools \subseteq sw.visited
       THEN sw' = SwIdle
       ELSE \E n \in DOMAIN pools \ sw.visited :
               sw' = [sw EXCEPT !.pc = "pp_snap",
                                !.visited = @ \cup {n},
                                !.pool = pools[n],
                                !.freePools = [i \in Slots |-> FALSE],
                                !.pinged = [i \in Slots |-> 0],
                                !.moved = {}]
    /\ UNCHANGED <<MaxConnsInPool, calls, pools, poolObj, poolM, poolPtr, mPtr, pc, loc,
                   crashed, held, misuse>>

\* for _, pool := range pools { if pool.ping { pingPool(pool) } }, db.go
\* 400-404: the next entry of the map, in no particular order, each key at
\* most once; pingPool starts with freePools all false (db.go 410).  With no
\* entry left the sweep is over.
SwRange ==
    /\ Running /\ sw.pc = "range"
    /\ IF DOMAIN pools \subseteq sw.visited
       THEN sw' = SwIdle
       ELSE \E n \in DOMAIN pools \ sw.visited :
               sw' = IF poolObj[pools[n]].ping
                     THEN [sw EXCEPT !.pc = "pp_snap",
                                     !.visited = @ \cup {n},
                                     !.pool = pools[n],
                                     !.freePools = [i \in Slots |-> FALSE],
                                     !.pinged = [i \in Slots |-> 0],
                                     !.moved = {}]
                     ELSE [sw EXCEPT !.visited = @ \cup {n}]
    /\ UNCHANGED <<MaxConnsInPool, calls, pools, poolObj, poolM, poolPtr, mPtr, pc, loc,
                   crashed, held, misuse>>

\* pool.m.RLock(); copy(freePools, pool.busy); pool.m.RUnlock(): db.go
\* 411-413.
PpSnapshot ==
    /\ Running /\ sw.pc = "pp_snap"
    /\ CanRLock(poolM[sw.pool])
    /\ sw' = [sw EXCEPT !.pc = "pp_loop",
                        !.freePools = poolObj[sw.pool].busy,
                        !.index = 1]
    /\ UNCHANGED <<MaxConnsInPool, calls, pools, poolObj, poolM, poolPtr, mPtr, pc, loc,
                   crashed, held, misuse>>

\* A loop that takes no notice of the snapshot.
PpIterNoSnapshot ==
    /\ Running /\ sw.pc = "pp_loop"
    /\ sw' = IF sw.index \notin Slots
             THEN [SwIdle EXCEPT !.pc = "range", !.visited = sw.visited]
             ELSE IF poolObj[sw.pool].conns[sw.index] # Nil
                  THEN [sw EXCEPT !.pc = "pp_ping",
                                  !.db = poolObj[sw.pool].conns[sw.index]]
                  ELSE [sw EXCEPT !.index = @ + 1]
    /\ UNCHANGED <<MaxConnsInPool, calls, pools, poolObj, poolM, poolPtr, mPtr, pc, loc,
                   crashed, held, misuse>>

\* One round of the loop of db.go 414-420, with no lock held: a slot the
\* snapshot has busy is passed over; of the others pool.conns[index] is read
\* and, when not nil, pinged next.  After the last slot pingPool returns.
PpIter ==
    /\ Running /\ sw.pc = "pp_loop"
    /\ sw' = IF sw.index \notin Slots
             THEN [SwIdle EXCEPT !.pc = "range", !.visited = sw.visited]
             ELSE IF ~sw.freePools[sw.index]
                     /\ poolObj[sw.pool].conns[sw.index] # Nil
                  THEN [sw EXCEPT !.pc = "pp_ping",
                                  !.db = poolObj[sw.pool].conns[sw.index]]
                  ELSE [sw EXCEPT !.index = @ + 1]
    /\ UNCHANGED <<MaxConnsInPool, calls, pools, poolObj, poolM, poolPtr, mPtr, pc, loc,
                   crashed, held, misuse>>

\* A ping whose failure takes the connection out of its slot.
PpPingEvicts ==
    /\ Running /\ sw.pc = "pp_ping"
    /\ \E e \in {NoErr, ErrPing} :
          /\ sw' = [sw EXCEPT !.pc = "pp_loop", !.db = Nil,
                              !.index = @ + 1,
                              !.pinged[sw.index] = IF @ < 2 THEN @ + 1 ELSE @]
          /\ poolObj' = IF e = NoErr
                        THEN poolObj
                        ELSE [poolObj EXCEPT ![sw.pool].conns[sw.index] = Nil]
    /\ UNCHANGED <<MaxConnsInPool, calls, pools, poolM, poolPtr, mPtr, pc, loc,
                   crashed, held, misuse>>

\* A ping whose failure ends the background goroutine.
PpPingStopsOnError ==
    /\ Running /\ sw.pc = "pp_ping"
    /\ \E e \in {NoErr, ErrPing} :
          sw' = IF e = NoErr
                THEN [sw EXCEPT !.pc = "pp_loop", !.db = Nil,
                                !.index = @ + 1,
                                !.pinged[sw.index] = IF @ < 2 THEN @ + 1 ELSE @]
                ELSE [sw EXCEPT !.pc = "stopped", !.db = Nil]
    /\ UNCHANGED <<MaxConnsInPool, calls, pools, poolObj, poolM, poolPtr, mPtr, pc, loc,
                   crashed, held, misuse>>

\* db.Ping(), db.go 417: the driver answers or fails, and the answer is
\* dropped.
PpPing ==
    /\ Running /\ sw.pc = "pp_ping"
    /\ \E e \in {NoErr, ErrPing} :
          sw' = [sw EXCEPT !.pc = "pp_loop", !.db = Nil,
                           !.index = @ + 1,
                           !.pinged[sw.index] = IF @ < 2 THEN @ + 1 ELSE @]
    /\ UNCHANGED <<MaxConnsInPool, calls, pools, poolObj, poolM, poolPtr, mPtr, pc, loc,
                   crashed, held, misuse>>

\* The Go runtime's check of map accesses: a map write that overlaps another
\* access of the same map can end the process ("fatal error: concurrent map
\* writes", "... map read and map write", "... map iteration and map write").
Crash ==
    /\ Running /\ RegistryRace
    /\ crashed' = TRUE
    /\ UNCHANGED <<MaxConnsInPool, calls, pools, poolObj, poolM, poolPtr, mPtr, pc, loc,
                   sw, held, misuse>>

\* --------------------------------------------------------------- the system
Next ==
    \/ \E t \in Callers :
          \/ \E n \in Names, cfg \in Configs : CallNewPoolConnection(t, n, cfg)
          \/ RegWrite(t)
          \/ \E n \in Names : CallGetFromPool(t, n)
          \/ GetLookup(t)
          \/ GetScan(t)
          \/ GetOpen(t)
          \/ GetPtr(t)
          \/ \E db \in KnownDBs : CallReturnToPool(t, db)
          \/ RetRead(t)
          \/ RetLookup(t)
          \/ RetClear(t)
          \/ \E db \in KnownDBs : CallConnectionName(t, db)
          \/ CnRead(t)
    \/ SwTimer
    \/ SwRange
    \/ PpSnapshot
    \/ PpIter
    \/ PpPing
    \/ Crash

Spec == Init /\ [][Next]_vars

\* The steps of a call in progress of caller t, and those of the background
\* goroutine.
CallerStep(t) ==
    \/ RegWrite(t)
    \/ GetLookup(t) \/ GetScan(t) \/ GetOpen(t) \/ GetPtr(t)
    \/ RetRead(t) \/ RetLookup(t) \/ RetClear(t)
    \/ CnRead(t)

SweeperStep == SwTimer \/ SwRange \/ PpSnapshot \/ PpIter \/ PpPing

\* Fair scheduling: a goroutine that can run does run, the driver's Open and
\* Ping return, the timer of db.go 399 fires, and a goroutine waiting for a
\* lock gets it once it stays free (the callers make finitely many calls, so
\* a lock is not taken from under a waiter for ever).  Callers are free to
\* make no further call.
FairSpec ==
    /\ Spec
    /\ \A t \in Callers : WF_vars(CallerStep(t))
    /\ WF_vars(SweeperStep)

\* ================================================================ claims
\* The step caller t takes from position `from`.
StepFrom(t, from) == pc[t] = from /\ pc'[t] # from

\* The pool object caller t works on, after its lookup.
PoolOf(t) == poolObj[loc[t].pool]

\* The busy slots of a pool.
BusySlots(p) == {i \in DOMAIN p.busy : p.busy[i]}

\* Every slot of the pool is busy.
AllBusy(p) == \A i \in DOMAIN p.busy : p.busy[i]

\* i is the lowest slot of the pool that is not busy.
LowestFree(p, i) == ~p.busy[i] /\ \A j \in DOMAIN p.busy : j < i => p.busy[j]

\* Caller t is back from op.
Returned(t, op) == pc[t] = "idle" /\ loc[t].op = op

\* A pool object that a later NewPoolConnection of its name has replaced.
Replaced(id) ==
    /\ \A n \in DOMAIN pools : pools[n] # id
    /\ \A t \in Callers : ~(pc[t] = "reg_write" /\ loc[t].pool = id)

NoneReplaced == \A id \in DOMAIN poolObj : ~Replaced(id)

\* ---- C1
\* C1: every pool has exactly MaxConnsInPool busy flags, so at most that many
\* are set, and a GetFromPool that takes the pool's lock with every slot busy
\* returns the exhaustion error and a nil handle, changing nothing.
C1_StepExhausted ==
    \A t \in Callers :
        (StepFrom(t, "get_lock") /\ AllBusy(PoolOf(t))) =>
            /\ pc'[t] = "idle"
            /\ loc'[t].err = ErrPoolExhausted
            /\ loc'[t].db = Nil
            /\ poolObj' = poolObj /\ poolPtr' = poolPtr

C1_BusyWithinCapacity ==
    \A id \in DOMAIN poolObj :
        /\ Len(poolObj[id].busy) = MaxConnsInPool
        /\ Cardinality(BusySlots(poolObj[id])) <= MaxConnsInPool

\* C1 (formula): the exhaustion result of every GetFromPool that finds all
\* slots busy, and the bound on busy slots after every step that changes a
\* pool (there is no pool to begin with).
C1_PoolExhausted ==
    [][/\ C1_StepExhausted
       /\ poolObj' # poolObj => C1_BusyWithinCapacity']_vars

\* C1 (witness): a GetFromPool has come back with the exhaustion error from a
\* pool whose slots are all busy.
C1_Witness ==
    \E t \in Callers :
        /\ Returned(t, "GetFromPool")
        /\ loc[t].err = ErrPoolExhausted
        /\ loc[t].name \in DOMAIN pools
        /\ Cardinality(BusySlots(poolObj[pools[loc[t].name]])) = MaxConnsInPool

\* ---- C2
\* The callers holding handle h, each counted as often as it was given h.
Holdings(h) == {<<t, k>> \in Callers \X {1, 2} : held[t][h] >= k}

\* C2: while every caller releases only handles it holds and no pool has been
\* replaced by a second registration, no handle is held twice: GetFromPool
\* gives a handle out again only after its holder has released it.
C2_NoDoubleAssignment ==
    (~misuse /\ NoneReplaced) =>
        \A h \in Handles : Cardinality(Holdings(h)) <= 1

\* C2 (witness): a handle one caller released is now held by the other, with
\* the protocol kept.
C2_Witness ==
    /\ ~misuse /\ NoneReplaced
    /\ \E t1 \in Callers, t2 \in Callers, h \in Handles :
          /\ t1 # t2
          /\ Returned(t1, "ReturnToPool") /\ loc[t1].arg = h /\ loc[t1].ok
          /\ Returned(t2, "GetFromPool") /\ loc[t2].db = h
          /\ held[t2][h] = 1

\* ---- C3
\* C3: a GetFromPool whose first idle slot already holds a connection returns
\* that connection at once, with no call of Open: the slot's connection, the
\* set of connections ever opened and the reverse index are as before.
C3_Step ==
    \A t \in Callers : \A i \in Slots :
        (/\ StepFrom(t, "get_lock")
         /\ LowestFree(PoolOf(t), i)
         /\ PoolOf(t).conns[i] # Nil) =>
            /\ pc'[t] = "idle"
            /\ loc'[t].err = NoErr
            /\ loc'[t].db = PoolOf(t).conns[i]
            /\ poolObj'[loc[t].pool].conns = PoolOf(t).conns
            /\ poolObj'[loc[t].pool].busy[i]
            /\ Opened' = Opened
            /\ poolPtr' = poolPtr

\* C3 (formula): every step reuses an idle slot's connection without opening.
C3_ReuseNotReopen == [][C3_Step]_vars

\* C3 (witness): Acquire, Release, Acquire on an otherwise idle pool: the
\* handle one caller got and released is the handle the next GetFromPool
\* returned, and it is the only connection ever opened.
C3_Witness ==
    /\ Len(poolObj) = 1
    /\ \E t1 \in Callers, t2 \in Callers, h \in Handles :
          /\ Returned(t1, "ReturnToPool") /\ loc[t1].arg = h /\ loc[t1].ok
          /\ Returned(t2, "GetFromPool") /\ loc[t2].db = h
          /\ Opened = {h}

\* ---- C4
\* C4: a GetFromPool whose name is not in the registry returns the unknown
\* pool error and a nil handle, and changes no pool, lock, registry or
\* reverse index entry.
C4_Step ==
    \A t \in Callers :
        (StepFrom(t, "get_lookup") /\ loc[t].name \notin DOMAIN pools) =>
            /\ pc'[t] = "idle"
            /\ loc'[t].err = ErrUnknownPool
            /\ loc'[t].db = Nil
            /\ UNCHANGED <<pools, poolObj, poolM, poolPtr, mPtr>>

\* C4 (formula): every lookup of an unregistered name ends the call so.
C4_UnknownPool == [][C4_Step]_vars

\* C4 (witness): a GetFromPool has come back with the unknown pool error.
C4_Witness ==
    \E t \in Callers :
        /\ Returned(t, "GetFromPool")
        /\ loc[t].err = ErrUnknownPool /\ loc[t].db = Nil

\* ---- C5
\* C5: every step of a ReturnToPool whose handle is not in the reverse index
\* leaves the pools, the registry and the reverse index as they are, and the
\* call returns false.
C5_Step ==
    \A t \in Callers :
        /\ (/\ pc[t] = "idle" /\ pc'[t] = "ret_read"
            /\ loc'[t].arg \notin DOMAIN poolPtr) =>
              UNCHANGED <<pools, poolObj, poolPtr>>
        /\ (StepFrom(t, "ret_read") /\ loc[t].arg \notin DOMAIN poolPtr) =>
              /\ pc'[t] = "idle"
              /\ loc'[t].ok = FALSE
              /\ UNCHANGED <<pools, poolObj, poolM, poolPtr>>

\* C5 (formula): every step of a release of an unindexed handle is so.
C5_ForeignRelease == [][C5_Step]_vars

\* C5 (witness): a ReturnToPool of a foreign handle has returned false.
C5_Witness ==
    \E t \in Callers :
        /\ Returned(t, "ReturnToPool")
        /\ loc[t].arg = Foreign
        /\ loc[t].ok = FALSE

\* ---- C6
\* C6: an Open that fails makes GetFromPool return the driver's error and a
\* nil handle with the pool and the reverse index as before and the pool's
\* lock free again; whenever the first idle slot is empty GetFromPool goes on
\* to Open for that slot, whatever happened before; and an Open that succeeds
\* puts the new connection in that slot, which the call then returns.
C6_Step ==
    \A t \in Callers :
        /\ (StepFrom(t, "get_open") /\ pc'[t] = "idle") =>
              /\ loc'[t].err = ErrOpen
              /\ loc'[t].db = Nil
              /\ poolObj' = poolObj
              /\ poolPtr' = poolPtr
              /\ PoolOf(t).conns[loc[t].index] = Nil
              /\ ~PoolOf(t).busy[loc[t].index]
              /\ poolM'[loc[t].pool] = FreeMutex
        /\ StepFrom(t, "get_lock") =>
              \A i \in Slots :
                  (LowestFree(PoolOf(t), i) /\ PoolOf(t).conns[i] = Nil) =>
                      /\ pc'[t] = "get_open"
                      /\ loc'[t].index = i
        /\ (StepFrom(t, "get_open") /\ pc'[t] # "idle") =>
              /\ loc'[t].err = NoErr
              /\ loc'[t].db \in Handles
              /\ poolObj'[loc[t].pool].conns[loc[t].index] = loc'[t].db
        /\ StepFrom(t, "get_ptrlock") =>
              /\ pc'[t] = "idle"
              /\ loc'[t].err = NoErr
              /\ loc'[t].db = PoolOf(t).conns[loc[t].index]
              /\ poolObj'[loc[t].pool].busy[loc[t].index]

\* C6 (formula): every step of GetFromPool around Open is so.
C6_OpenFailure == [][C6_Step]_vars

\* C6 (witness): one GetFromPool has come back with the driver's error and
\* another one, still holding the pool's lock, has then opened the first
\* connection of the only pool, in slot 1: the open was tried again on the
\* slot the first attempt left empty, and succeeded.
C6_Witness ==
    /\ Len(poolObj) = 1
    /\ \E t1 \in Callers, t2 \in Callers :
          /\ Returned(t1, "GetFromPool") /\ loc[t1].err = ErrOpen
          /\ loc[t1].db = Nil
          /\ pc[t2] = "get_ptrlock" /\ loc[t2].index = 1
          /\ Opened = {loc[t2].db}

\* ---- C7
\* C7: a ReturnToPool that reaches a slot which is already idle returns true
\* and leaves the pools, the registry and the reverse index as they are; and
\* every ReturnToPool of a handle of the reverse index returns true.
C7_Step ==
    \A t \in Callers :
        /\ (StepFrom(t, "ret_lock") /\ ~PoolOf(t).busy[loc[t].ptr.index]) =>
              /\ pc'[t] = "idle"
              /\ loc'[t].ok = TRUE
              /\ UNCHANGED <<pools, poolObj, poolM, poolPtr, mPtr>>
        /\ (/\ loc[t].op = "ReturnToPool"
            /\ loc[t].arg \in DOMAIN poolPtr
            /\ pc[t] # "idle" /\ pc'[t] = "idle") => loc'[t].ok = TRUE

\* C7 (formula): every step of a release of an indexed handle is so.
C7_ReleaseIdempotent == [][C7_Step]_vars

\* C7 (witness): one caller alone has registered a pool, got a handle and
\* released it twice; the second release returned true.
C7_Witness ==
    /\ calls = 4
    /\ misuse
    /\ \E t1 \in Callers, t2 \in Callers :
          /\ t1 # t2
          /\ pc[t2] = "idle" /\ loc[t2] = NoLoc
          /\ Returned(t1, "ReturnToPool") /\ loc[t1].arg \in Handles
          /\ loc[t1].ok = TRUE

\* ---- C8
\* C8 (the claim): whenever the background goroutine is about to ping the
\* connection of a slot, that slot is not busy.
C8_NeverPingsBusy ==
    sw.pc = "pp_ping" => ~poolObj[sw.pool].busy[sw.index]

\* ---- C9
\* C9: in one pingPool no slot is pinged twice, and when it returns, every
\* slot that did not change during it was pinged once if it is idle and
\* holds a connection, and not at all if it is busy.
C9_OnePingPerIdleSlot ==
    sw.pc \in {"pp_loop", "pp_ping"} =>
        /\ \A i \in Slots : sw.pinged[i] <= 1
        /\ sw.index \notin Slots =>
              \A i \in Slots \ sw.moved :
                  LET p == poolObj[sw.pool]
                  IN  /\ p.busy[i] => sw.pinged[i] = 0
                      /\ (~p.busy[i] /\ p.conns[i] # Nil) => sw.pinged[i] = 1

\* C9 (witness): a pingPool is over in which an idle connection was pinged
\* once and nothing changed.
C9_Witness ==
    /\ sw.pc = "pp_loop" /\ sw.index \notin Slots
    /\ sw.moved = {}
    /\ \E i \in Slots :
          /\ ~poolObj[sw.pool].busy[i]
          /\ poolObj[sw.pool].conns[i] # Nil
          /\ sw.pinged[i] = 1
    /\ \A i \in Slots : poolObj[sw.pool].busy[i] => sw.pinged[i] = 0

\* ---- C10
\* C10 (the claim): no goroutine is about to write the registry map while
\* another one is about to read or write it.
C10_RegistryExcluded ==
    \A t1 \in Callers : \A t2 \in (Callers \cup {Sweeper}) \ {t1} :
        ~(MapWriter(t1) /\ (MapWriter(t2) \/ MapReader(t2)))

\* ---- C11
\* The driver name a registration with config cfg is to keep.
C11_Driver(cfg) == IF cfg.driver = "" THEN DefaultDriverName ELSE cfg.driver

\* C11: NewPoolConnection allocates an entry with MaxConnsInPool slots, all
\* empty and none busy, with the driver, data source and ping flag of its
\* config (the default driver for an empty driver name); its map write binds
\* the name to that entry, still fresh, in place of any earlier entry of the
\* name whatever that one holds, and leaves the other names and every
\* existing entry as they were.
C11_Step ==
    \A t \in Callers :
        /\ (pc[t] = "idle" /\ pc'[t] = "reg_write") =>
              LET id == loc'[t].pool
              IN  /\ id \notin DOMAIN poolObj /\ id \in DOMAIN poolObj'
                  /\ Len(poolObj'[id].conns) = MaxConnsInPool
                  /\ Len(poolObj'[id].busy) = MaxConnsInPool
                  /\ \A i \in 1..MaxConnsInPool :
                        poolObj'[id].conns[i] = Nil /\ ~poolObj'[id].busy[i]
                  /\ \E cfg \in Configs :
                        /\ poolObj'[id].driver = C11_Driver(cfg)
                        /\ poolObj'[id].dsn = cfg.dsn
                        /\ poolObj'[id].ping = cfg.ping
                  /\ poolObj'[id].driver # ""
                  /\ \A j \in DOMAIN poolObj : poolObj'[j] = poolObj[j]
                  /\ pools' = pools
        /\ StepFrom(t, "reg_write") =>
              LET n == loc[t].name
                  id == loc[t].pool
              IN  /\ DOMAIN pools' = DOMAIN pools \cup {n}
                  /\ pools'[n] = id
                  /\ n \in DOMAIN pools => pools[n] # id
                  /\ \A m \in DOMAIN pools \ {n} : pools'[m] = pools[m]
                  /\ \A i \in 1..MaxConnsInPool :
                        poolObj'[id].conns[i] = Nil /\ ~poolObj'[id].busy[i]
                  /\ poolObj' = poolObj /\ poolPtr' = poolPtr

\* C11 (formula): every step of NewPoolConnection is so.
C11_Register == [][C11_Step]_vars

\* C11 (witness): a name is bound to a fresh entry while the entry it was
\* bound to before, now out of the registry, holds a connection given out
\* under that name with its slot busy.
C11_Witness ==
    \E n \in DOMAIN pools : \E old \in DOMAIN poolObj : \E i \in Slots :
        /\ Replaced(old) /\ old < pools[n]
        /\ poolObj[old].conns[i] \in DOMAIN poolPtr
        /\ poolPtr[poolObj[old].conns[i]].nameConn = n
        /\ poolObj[old].busy[i]
        /\ \A j \in Slots : poolObj[pools[n]].conns[j] = Nil
                            /\ ~poolObj[pools[n]].busy[j]

C13_Step ==
    \A t \in Callers :
        /\ StepFrom(t, "get_lock") =>
              /\ \A i \in 1..MaxConnsInPool :
                    LowestFree(PoolOf(t), i) =>
                        /\ loc'[t].err # ErrPoolExhausted
                        /\ IF PoolOf(t).conns[i] # Nil
                           THEN /\ pc'[t] = "idle"
                                /\ loc'[t].db = PoolOf(t).conns[i]
                                /\ loc'[t].err = NoErr
                                /\ poolObj' = [poolObj EXCEPT
                                       ![loc[t].pool].busy[i] = TRUE]
                           ELSE /\ pc'[t] = "get_open"
                                /\ loc'[t].index = i
                                /\ poolObj' = poolObj
              /\ (pc'[t] = "idle" /\ loc'[t].err = ErrPoolExhausted) =>
                    AllBusy(PoolOf(t))
        /\ (pc[t] \in {"get_open", "get_ptrlock"} /\ pc'[t] # pc[t]) =>
              /\ loc'[t].index = loc[t].index \/ pc'[t] = "idle"
              /\ loc'[t].err \in {NoErr, ErrOpen}
              /\ LowestFree(PoolOf(t), loc[t].index)
              /\ pc'[t] = "idle" =>
                    \/ loc'[t].err = ErrOpen /\ loc'[t].db = Nil
                    \/ /\ loc'[t].err = NoErr
                       /\ loc'[t].db = poolObj'[loc[t].pool].conns[loc[t].index]
                       /\ loc'[t].db # Nil

\* C13 (formula): every step of GetFromPool under the pool's lock is so.
C13_IndexOrder == [][C13_Step]_vars

\* C13 (witness): with slot 1 busy and slot 2 not, a GetFromPool has passed
\* over slot 1 and is about to open a connection for slot 2.
C13_Witness ==
    \E t \in Callers :
        /\ pc[t] = "get_open"
        /\ loc[t].index = 2
        /\ PoolOf(t).busy[1]
        /\ ~PoolOf(t).busy[2]

\* ---- C14
\* C14: no step changes or empties a slot that holds a connection, and
\* every entry, new or changed, has MaxConnsInPool connection slots and
\* MaxConnsInPool busy flags.
C14_Step ==
    poolObj' # poolObj =>
        \A id \in DOMAIN poolObj' :
            /\ Len(poolObj'[id].conns) = MaxConnsInPool
            /\ Len(poolObj'[id].busy) = MaxConnsInPool
            /\ id \in DOMAIN poolObj =>
                  \A i \in 1..MaxConnsInPool :
                      poolObj[id].conns[i] # Nil =>
                          poolObj'[id].conns[i] = poolObj[id].conns[i]

\* C14 (formula): every step keeps the connections in their slots.
C14_OpenedOnce == [][C14_Step]_vars

\* C14 (witness): a connection was given out, released and given out again,
\* and pinged in between or after, and is in the slot it was opened in: the
\* only connection opened so far, in slot 1, now busy.
C14_Witness ==
    \E t \in Callers : \E id \in DOMAIN poolObj :
        /\ Returned(t, "ReturnToPool") /\ loc[t].ok
        /\ loc[t].arg = poolObj[id].conns[1]
        /\ Opened = {loc[t].arg}
        /\ poolObj[id].busy[1]
        /\ sw.pool = id /\ sw.pc = "pp_loop" /\ sw.pinged[1] = 1

\* ---- C15
\* The background goroutine's next step reads pool.conns[i] of entry id
\* (db.go 416).
C15_SweeperReads(id, i) ==
    /\ sw.pc = "pp_loop" /\ sw.pool = id /\ sw.index = i
    /\ i \in Slots /\ ~sw.freePools[i]

\* Caller t, holding the lock of entry id, is in the call of Open whose
\* result it writes to pool.conns[i] (db.go 464-466).
C15_AcquireWrites(t, id, i) ==
    pc[t] = "get_open" /\ loc[t].pool = id /\ loc[t].index = i

\* C15 (the claim): the background goroutine is never about to read a
\* connection slot while a GetFromPool holds the entry's lock exclusively to
\* write that slot, as it would not be if it read under the lock held shared.
C15_ConnsGuarded ==
    \A id \in DOMAIN poolObj : \A i \in Slots :
        C15_SweeperReads(id, i) =>
            \A t \in Callers :
                ~(C15_AcquireWrites(t, id, i) /\ poolM[id].w = t)

\* ---- C16
\* The goroutines that hold a lock caller t's next step needs and cannot
\* get: the holders of the entry's lock for a GetFromPool or ReturnToPool
\* standing at pool.m.Lock(), those of mPtr for a GetFromPool standing at
\* mPtr.Lock().
C16_LockHolders(mu) == (mu.r \cup {mu.w}) \ {NoThread}

C16_Blockers(t) ==
    IF pc[t] \in {"get_lock", "ret_lock"}
    THEN C16_LockHolders(poolM[loc[t].pool])
    ELSE IF pc[t] = "get_ptrlock"
         THEN C16_LockHolders(mPtr)
         ELSE {}

\* No set of goroutines in which each waits for a lock another one (or
\* itself) holds.
C16_NoWaitCycle ==
    \A S \in (SUBSET (Callers \cup {Sweeper})) \ {{}} :
        \E t \in S : t = Sweeper \/ C16_Blockers(t) \cap S = {}

\* C16: no state has goroutines waiting in a cycle for each other's pool
\* lock or reverse-index lock, and under fair scheduling every call that
\* started returns (or the runtime has stopped the process for the
\* unsynchronised registry access of C10, which holds no lock).
C16_DeadlockFree ==
    /\ []C16_NoWaitCycle
    /\ \A t \in Callers : (pc[t] # "idle") ~> (pc[t] = "idle" \/ crashed)

\* C16 (witness): a GetFromPool that holds its pool's lock waits for mPtr,
\* which a ReturnToPool holds shared, while the other lock it could wait for
\* is the one the GetFromPool holds.
C16_Witness ==
    \E t \in Callers, u \in Callers :
        /\ Running
        /\ pc[t] = "get_ptrlock" /\ poolM[loc[t].pool].w = t
        /\ pc[u] = "ret_read" /\ mPtr.r = {u}
        /\ loc[u].arg \in DOMAIN poolPtr
        /\ poolPtr[loc[u].arg].nameConn = loc[t].name

\* ---- C17
\* C17: while caller t is in the call of Open for entry A, holding A's lock,
\* every step of another caller's GetFromPool or ReturnToPool that works on
\* a different entry can be taken as things stand, t not moving; one that
\* stands at the lock of A cannot, and no other caller is past that lock.
C17_OnlyOwnPool ==
    Running =>
        \A t \in Callers : \A u \in Callers \ {t} :
            pc[t] = "get_open" =>
                /\ poolM[loc[t].pool].w = t
                /\ pc[u] = "get_lookup" => ENABLED GetLookup(u)
                /\ pc[u] = "get_lock" =>
                      (ENABLED GetScan(u) <=> loc[u].pool # loc[t].pool)
                /\ pc[u] = "get_open" =>
                      loc[u].pool # loc[t].pool /\ ENABLED GetOpen(u)
                /\ pc[u] = "get_ptrlock" =>
                      loc[u].pool # loc[t].pool /\ ENABLED GetPtr(u)
                /\ pc[u] = "ret_read" => ENABLED RetRead(u)
                /\ pc[u] = "ret_lookup" => ENABLED RetLookup(u)
                /\ pc[u] = "ret_lock" =>
                      (ENABLED RetClear(u) <=> loc[u].pool # loc[t].pool)

\* C17 (witness): one caller is in Open for one entry while the other, which
\* has passed the lock of another entry and its own Open, stands before the
\* reverse index.
C17_Witness ==
    \E t \in Callers, u \in Callers :
        /\ Running
        /\ pc[t] = "get_open" /\ pc[u] = "get_ptrlock"
        /\ loc[t].pool # loc[u].pool
        /\ loc[t].name # loc[u].name

\* ---- C18
\* A step of the background goroutine: it moves, and no caller does.
C18_SweeperMoves == pc' = pc /\ sw' # sw

\* C18: a step of the background goroutine changes no entry, lock, reverse
\* index or registry binding and no caller's locals or result; and the step
\* that pings leaves the goroutine itself in a state that what it had before
\* determines, so that nothing of the outcome of the ping is kept for any
\* later step to depend on.
C18_Step ==
    /\ C18_SweeperMoves =>
          /\ poolObj' = poolObj /\ poolM' = poolM
          /\ poolPtr' = poolPtr /\ mPtr' = mPtr
          /\ pools' = pools
          /\ loc' = loc
    /\ (sw.pc = "pp_ping" /\ C18_SweeperMoves) =>
          sw' = [sw EXCEPT !.pc = "pp_loop", !.db = Nil,
                           !.index = sw.index + 1,
                           !.pinged[sw.index] = sw.pinged[sw.index] + 1]

\* C18 (formula): every step of the background goroutine is so.
C18_SweeperFrame == [][C18_Step]_vars

\* C18 (witness): in the course of one pingPool a connection was pinged and
\* a GetFromPool returned that very connection, its slot now busy.
C18_Witness ==
    \E t \in Callers : \E i \in Slots :
        /\ sw.pc = "pp_loop" /\ sw.pinged[i] = 1 /\ i \in sw.moved
        /\ Returned(t, "GetFromPool") /\ loc[t].err = NoErr
        /\ loc[t].db = poolObj[sw.pool].conns[i]
        /\ poolObj[sw.pool].busy[i]

\* ---- C19
\* C19: the entry a pingPool works on was registered with its ping flag
\* set, and what it pings is the connection held by the slot it has reached,
\* never an empty slot: every slot it has pinged holds a connection.
C19_PingsOnlyEnabledOpened ==
    sw.pc \in {"pp_snap", "pp_loop", "pp_ping"} =>
        /\ poolObj[sw.pool].ping
        /\ sw.pc = "pp_ping" =>
              /\ sw.db # Nil
              /\ sw.db = poolObj[sw.pool].conns[sw.index]
        /\ sw.pc # "pp_snap" =>
              \A i \in 1..MaxConnsInPool :
                  sw.pinged[i] > 0 => poolObj[sw.pool].conns[i] # Nil

\* C19 (witness): the range over the registry has passed every name, among
\* them that of an entry registered without the ping flag which holds a
\* connection that was given out and released, and no pingPool was called
\* for it.
C19_Witness ==
    /\ sw.pc = "range" /\ DOMAIN pools \subseteq sw.visited
    /\ \E n \in DOMAIN pools : \E i \in Slots :
          /\ ~poolObj[pools[n]].ping
          /\ poolObj[pools[n]].conns[i] # Nil
          /\ ~poolObj[pools[n]].busy[i]
          /\ sw.pool # pools[n]
          /\ \E t \in Callers :
                /\ Returned(t, "ReturnToPool") /\ loc[t].ok
                /\ loc[t].arg = poolObj[pools[n]].conns[i]

\* ---- C20
\* C20 (the claim): every handle of the reverse index is, in the entry now
\* registered under the name the index has for it, the connection of the
\* slot the index has for it.
C20_IndexConsistent ==
    \A h \in DOMAIN poolPtr :
        /\ poolPtr[h].nameConn \in DOMAIN pools
        /\ poolObj[pools[poolPtr[h].nameConn]].conns[poolPtr[h].index] = h

\* ---- C21
\* Slot i of entry id, an entry in the registry with its ping flag set, holds
\* a connection and is not busy.
C21_IdleOpened(id, i) ==
    /\ id \in DOMAIN poolObj
    /\ \E n \in DOMAIN pools : pools[n] = id
    /\ poolObj[id].ping
    /\ poolObj[id].conns[i] # Nil
    /\ ~poolObj[id].busy[i]

\* The background goroutine is at db.Ping() for the connection of slot i of
\* entry id.
C21_Pinging(id, i) ==
    sw.pc = "pp_ping" /\ sw.pool = id /\ sw.index = i

\* C21: under fair scheduling, and unless the runtime stops the process for
\* the unsynchronised registry access of C10, the background goroutine starts
\* sweep after sweep for ever, whatever calls are made and however the pings
\* end; and a connection that from some point on stays idle in a registered
\* entry with the ping flag is pinged again and again: always, later, either
\* it is not so or it is being pinged.
C21_SweeperForever ==
    /\ []<>(crashed \/ sw.pc = "sleep")
    /\ []<>(crashed \/ sw.pc = "range")
    /\ \A id \in 1..MaxPools : \A i \in 1..MaxCap :
          []<>(crashed \/ ~C21_IdleOpened(id, i) \/ C21_Pinging(id, i))

\* C21 (witness): the callers have made all their calls, among them a
\* GetFromPool and a ReturnToPool of its connection, which is idle from now
\* on in its registered entry, and the background goroutine is pinging it.
C21_Witness ==
    /\ Running
    /\ calls = MaxCalls
    /\ \A t \in Callers : pc[t] = "idle"
    /\ \E id \in DOMAIN poolObj : \E i \in Slots :
          /\ C21_IdleOpened(id, i) /\ C21_Pinging(id, i)
          /\ \E t \in Callers :
                /\ Returned(t, "ReturnToPool") /\ loc[t].ok
                /\ loc[t].arg = poolObj[id].conns[i]

\* ---- C22
\* In entry p the slots that hold a connection are the first ones, and every
\* busy slot holds a connection.
C22_Shape(p) ==
    \A i \in 1..MaxConnsInPool :
        /\ p.conns[i] # Nil => \A j \in 1..(i - 1) : p.conns[j] # Nil
        /\ p.busy[i] => p.conns[i] # Nil

\* Entry p has no connection that is idle.
C22_NoneIdle(p) ==
    \A k \in 1..MaxConnsInPool : p.conns[k] # Nil => p.busy[k]

\* C22: every step that changes an entry leaves every entry with its opened
\* slots a prefix and its busy slots opened (there is no entry to begin
\* with); a GetFromPool goes on to Open only when no connection of its entry
\* is idle; and when it returns the connection it opened, every connection
\* of the entry is busy, so as many handles are busy at that moment as the
\* entry has connections.
C22_Step ==
    /\ poolObj' # poolObj =>
          \A id \in DOMAIN poolObj' : C22_Shape(poolObj'[id])
    /\ \A t \in Callers :
          /\ (pc[t] = "get_lock" /\ pc'[t] = "get_open") =>
                C22_NoneIdle(PoolOf(t))
          /\ StepFrom(t, "get_open") => C22_NoneIdle(PoolOf(t))
          /\ StepFrom(t, "get_ptrlock") =>
                /\ C22_NoneIdle(poolObj'[loc[t].pool])
                /\ \A j \in 1..MaxConnsInPool :
                      poolObj'[loc[t].pool].busy[j] <=> j <= loc[t].index

\* C22 (formula): every step is so.
C22_OpenedPrefix == [][C22_Step]_vars

\* C22 (witness): an entry has connections in its first two slots, both
\* busy, each returned by a GetFromPool to a different caller.
C22_Witness ==
    \E id \in DOMAIN poolObj : \E t \in Callers, u \in Callers :
        /\ t # u
        /\ poolObj[id].busy[1] /\ poolObj[id].busy[2]
        /\ Returned(t, "GetFromPool") /\ loc[t].db = poolObj[id].conns[1]
        /\ Returned(u, "GetFromPool") /\ loc[u].db = poolObj[id].conns[2]
        /\ loc[t].db # Nil /\ loc[u].db # Nil

====
